---- MODULE Spec2Model ----
(***************************************************************************)
(* Model of starfish/core/spots/DetectSpots/detect.py:                     *)
(*   measure_spot_intensity, measure_spot_intensities,                     *)
(*   concatenate_spot_attributes_to_intensities and detect_spots.          *)
(*                                                                         *)
(* Coordinates and radii of the SpotAttributes table are floating point    *)
(* columns; they are kept here in HALF units (x2 = 2 * x), so that         *)
(* np.ceil and astype(int) are real conversions.  Box bounds, image        *)
(* indices and axis lengths are whole numbers.                             *)
(***************************************************************************)
EXTENDS Integers, Sequences, FiniteSets

VARIABLES
    pc,                     \* position of the running function
    reference,              \* detect_spots: "none" | "raw" | "projected"
    radius_is_gyration,     \* argument radius_is_gyration
    measurement_function,   \* argument measurement_function: "max" | "sum"
    detector,               \* argument spot_finding_method (deterministic)
    spot_attributes,        \* SpotAttributes rows handed to the measurement
    box,                    \* the z_min .. x_max columns left on spots.data
    blob_intensities,       \* result of measure_spot_intensity
    frame_idx,              \* position of the loop over product(ch, round)
    intensity_table,        \* the IntensityTable being built / returned
    writes,                 \* how often each cell of the table was assigned
    results,                \* data_stack.transform: one result slot per group
    spot_attributes_list,   \* argument of the merge
    find_calls,             \* invocations of spot_finding_method, per input
    get_slice_calls,        \* invocations of data_image.get_slice
    measure_calls,          \* invocations of measure_spot_intensity
    transfer_calls,         \* invocations of the coordinate transfer
    measured                \* the frames sliced and measured: stack, c, r, spots

vars == <<pc, reference, radius_is_gyration, measurement_function, detector,
          spot_attributes, box, blob_intensities, frame_idx, intensity_table,
          writes, results, spot_attributes_list, find_calls, get_slice_calls,
          measure_calls, transfer_calls, measured>>

(***************************************************************************)
(* Bounds of the model.                                                    *)
(***************************************************************************)
\* channels of the data stack
MaxCh == 2
\* rounds of the data stack
MaxRound == 2
\* rows of the SpotAttributes table of the reference strategy
MaxSpots == 2
\* largest radius, in half units
MaxRadius2 == 2
\* how far outside the image a spot centre may lie, in half units
MaxOut2 == 4
\* frames handed to the merge
MaxFrames == 2
\* spots one frame contributes in the independent strategy
MaxFrameSpots == 2

\* image.shape of every (channel, round) frame: (z, y, x)
Shape == <<1, 2, 2>>

Axis == 1..3

NoTable == [none |-> TRUE]

(***************************************************************************)
(* The data stack: pixel values, injective over (c, r, z, y, x) and > 0.   *)
(***************************************************************************)
PixelValue(c, r, v) ==
    1 + v[3] + Shape[3] * (v[2] + Shape[2] * (v[1] + Shape[1] *
        (r + (MaxCh + MaxRound) * c)))

ch_labels == [i \in 1..MaxCh |-> i - 1]

round_labels == [i \in 1..MaxRound |-> i - 1]

(***************************************************************************)
(* measure_spot_intensity                                                  *)
(***************************************************************************)
\* astype(int) on a column kept in half units: truncation toward zero
AsInt(n2) == IF n2 >= 0 THEN n2 \div 2 ELSE -((-n2) \div 2)

\* np.ceil on a column kept in half units
Ceil(n2) == IF n2 >= 0 THEN (n2 + 1) \div 2 ELSE -((-n2) \div 2)

ClipLower(v, lo) == IF v < lo THEN lo ELSE v

ClipUpper(v, hi) == IF v > hi THEN hi ELSE v

RadiusWrongSign(radius2, gyration) ==
    IF gyration THEN Ceil(radius2) - 1 ELSE AsInt(radius2)

\* lines 53-56: the radius used for the box, in whole units
Radius(radius2, gyration) ==
    IF gyration THEN Ceil(radius2) + 1 ELSE AsInt(radius2)

\* line 59, then astype(int) of line 61
BoxMin(center2, radius) == AsInt(ClipLower(center2 - 2 * (radius - 1), 0))

\* line 60, then astype(int) of line 61
BoxMax(center2, radius, max_size) ==
    AsInt(ClipUpper(center2 + 2 * radius, 2 * max_size))

\* lines 57-61: the six bounds of one row; lo[a], hi[a] for a = z, y, x
BoxOf(row, gyration) ==
    LET radius == Radius(row.radius, gyration)
    IN  [lo |-> [a \in Axis |-> BoxMin(row.center[a], radius)],
         hi |-> [a \in Axis |-> BoxMax(row.center[a], radius, Shape[a])]]

\* a slice bound as numpy reads it: negative counts from the end, then clipped
SliceBound(k, len) ==
    IF k < 0 THEN ClipLower(k + len, 0) ELSE ClipUpper(k, len)

\* indices selected by image[lo:hi] on an axis of the given length
SliceIndices(lo, hi, len) ==
    {i \in 0..(len - 1) : SliceBound(lo, len) <= i /\ i < SliceBound(hi, len)}

\* lines 46-50: the voxels of image[z_min:z_max, y_min:y_max, x_min:x_max]
Region(b) ==
    {v \in (0..(Shape[1] - 1)) \X (0..(Shape[2] - 1)) \X (0..(Shape[3] - 1)) :
        \A a \in Axis : v[a] \in SliceIndices(b.lo[a], b.hi[a], Shape[a])}

RECURSIVE SumOver(_, _, _)
SumOver(c, r, S) ==
    IF S = {} THEN 0
    ELSE LET v == CHOOSE w \in S : TRUE
         IN  PixelValue(c, r, v) + SumOver(c, r, S \ {v})

MaxOver(c, r, S) ==
    CHOOSE m \in {PixelValue(c, r, v) : v \in S} :
        \A v \in S : PixelValue(c, r, v) <= m

\* np.max raises ValueError on an empty array, np.sum returns 0
Raises(mf, S) == mf = "max" /\ S = {}

\* line 51: measurement_function(data)
Measurement(mf, c, r, S) ==
    IF mf = "max" THEN MaxOver(c, r, S) ELSE SumOver(c, r, S)

\* lines 45-64 on the frame (c, r): the bounds columns and either the series
\* of intensities or the exception of the measurement function
measure_spot_intensity(c, r, spots, mf, gyration) ==
    LET b == [n \in 1..Len(spots) |-> BoxOf(spots[n], gyration)]
    IN  [box    |-> b,
         raised |-> \E n \in 1..Len(spots) : Raises(mf, Region(b[n])),
         series |-> [n \in 1..Len(spots) |->
                        IF Raises(mf, Region(b[n])) THEN 0
                        ELSE Measurement(mf, c, r, Region(b[n]))]]

(***************************************************************************)
(* measure_spot_intensities                                                *)
(***************************************************************************)
Range(s) == {s[i] : i \in DOMAIN s}

\* itertools.product(A, B) of line 112, as the sequence it iterates
Product(A, B) ==
    [k \in 1..(Len(A) * Len(B)) |->
        <<A[((k - 1) \div Len(B)) + 1], B[((k - 1) % Len(B)) + 1]>>]

\* IntensityTable.zeros: features numbered from 0, every cell 0
Zeros(rows, rounds, chs) ==
    [features |-> rows,
     ch       |-> chs,
     rounds   |-> rounds,
     cells    |-> [k \in (0..(Len(rows) - 1)) \X Range(chs) \X Range(rounds) |-> 0]]

NoWrites(table) == [k \in DOMAIN table.cells |-> 0]

NoSpotsNeverReturns(table) == FALSE

\* line 108: intensity_table.sizes[Features.AXIS] == 0
NoSpots(table) == Len(table.features) = 0

MeasuredStackIsReference == "reference_image"

\* line 231: data_image=data_stack, the stack measure_spot_intensities slices
MeasuredStack == "data_stack"

FrameSwapped(c, r) == <<r, c>>

\* line 114: the frame data_image.get_slice({Axes.CH: c, Axes.ROUND: r}) reads
FrameOf(c, r) == <<c, r>>

\* line 121: intensity_table.loc[dict(c=c, r=r)] = blob_intensities
AssignColumn(cells, c, r, series) ==
    [k \in DOMAIN cells |->
        IF k[2] = c /\ k[3] = r THEN series[k[1] + 1] ELSE cells[k]]

CountColumn(w, c, r) ==
    [k \in DOMAIN w |-> IF k[2] = c /\ k[3] = r THEN w[k] + 1 ELSE w[k]]

(***************************************************************************)
(* concatenate_spot_attributes_to_intensities                              *)
(* spot_attributes: a sequence of <<rows, inds>>, rows a sequence of       *)
(* [center, radius, intensity], inds = [c |-> channel, r |-> round]        *)
(***************************************************************************)
\* sorted(set(...)) of lines 145-146
Sorted(S) ==
    CHOOSE s \in [1..Cardinality(S) -> S] :
        \A i, j \in 1..Cardinality(S) : i < j => s[i] < s[j]

ChValuesOfFramesWithSpots(list) ==
    Sorted({list[f][2].c : f \in {g \in DOMAIN list : Len(list[g][1]) > 0}})

\* line 145
ChValues(list) == Sorted({list[f][2].c : f \in DOMAIN list})

\* line 146
RoundValues(list) == Sorted({list[f][2].r : f \in DOMAIN list})

RECURSIVE ConcatReversed(_)
ConcatReversed(list) ==
    IF list = <<>> THEN <<>>
    ELSE ConcatReversed(Tail(list)) \o list[1][1]

\* line 148: pd.concat([sa.data for sa, inds in spot_attributes])
RECURSIVE Concat(_)
Concat(list) ==
    IF list = <<>> THEN <<>>
    ELSE list[1][1] \o Concat(Tail(list))

\* line 150: drop(['spot_id', 'intensity'], axis=1)
DropIntensity(rows) ==
    [j \in DOMAIN rows |-> [center |-> rows[j].center, radius |-> rows[j].radius]]

\* lines 158-161 for one frame, i the feature index of its first row
AssignRows(cells, rows, inds, i) ==
    [k \in DOMAIN cells |->
        IF k[2] = inds.c /\ k[3] = inds.r /\ k[1] >= i /\ k[1] < i + Len(rows)
        THEN rows[k[1] - i + 1].intensity
        ELSE cells[k]]

RECURSIVE AssignFramesRestartingIndex(_, _, _)
AssignFramesRestartingIndex(cells, list, i) ==
    IF list = <<>> THEN cells
    ELSE AssignFramesRestartingIndex(
             AssignRows(cells, list[1][1], list[1][2], 0), Tail(list), 0)

\* lines 156-161: the loop over the frames, i running across them
RECURSIVE AssignFrames(_, _, _)
AssignFrames(cells, list, i) ==
    IF list = <<>> THEN cells
    ELSE AssignFrames(AssignRows(cells, list[1][1], list[1][2], i),
                      Tail(list), i + Len(list[1][1]))

\* pd.concat of line 148 raises ValueError when given no frame at all
ConcatenateRaises(list) == list = <<>>

\* lines 145-163
concatenate_spot_attributes_to_intensities(list) ==
    LET zeros == Zeros(DropIntensity(Concat(list)), RoundValues(list), ChValues(list))
    IN  [zeros EXCEPT !.cells = AssignFrames(zeros.cells, list, 0)]

(***************************************************************************)
(* Inputs                                                                  *)
(***************************************************************************)
MeasurementFunctions == {"max", "sum"}

\* any spot: centres up to MaxOut2 half units outside the image
AnySpots ==
    {[center |-> <<z, y, x>>, radius |-> rad] :
        z \in (-MaxOut2)..(2 * (Shape[1] - 1) + MaxOut2),
        y \in (-MaxOut2)..(2 * (Shape[2] - 1) + MaxOut2),
        x \in (-MaxOut2)..(2 * (Shape[3] - 1) + MaxOut2),
        rad \in 0..MaxRadius2}

InImage(row) ==
    \A a \in Axis : row.center[a] >= 0 /\ row.center[a] <= 2 * (Shape[a] - 1)

\* the voxels of a frame, in index order
Voxel(j) ==
    <<j \div (Shape[2] * Shape[3]), (j \div Shape[3]) % Shape[2], j % Shape[3]>>

NumVoxels == Shape[1] * Shape[2] * Shape[3]

\* a spot on voxel j of the reference image
SpotOn(j, rad) == [center |-> [a \in Axis |-> 2 * Voxel(j)[a]], radius |-> rad]

\* the tables a detector can report on the reference image: up to MaxSpots
\* spots on distinct voxels, in voxel order, each with a radius of its own
SpotTables ==
    UNION {
        {[n \in 1..Cardinality(V) |-> SpotOn(Sorted(V)[n], rad[n])] :
            rad \in [1..Cardinality(V) -> 0..MaxRadius2]} :
        V \in {W \in SUBSET (0..(NumVoxels - 1)) : Cardinality(W) <= MaxSpots}}

\* the (channel, round) groups data_stack.transform enumerates, in its order
Groups == Product(round_labels, ch_labels)

GroupKey(k) == [c |-> Groups[k][2], r |-> Groups[k][1]]

NoDetector ==
    [raises |-> FALSE, table |-> <<>>, n |-> 0, quiet |-> -1, bad |-> 0]

\* spot_finding_method as the reference strategy sees it: on the reference
\* image it raises or returns one table
ReferenceDetectors ==
    {[NoDetector EXCEPT !.raises = TRUE]} \cup
    {[NoDetector EXCEPT !.table = t] : t \in SpotTables}

\* spot_finding_method as the independent strategy sees it: it raises on
\* group `bad` (0: on none), finds nothing in channel `quiet`, and elsewhere
\* finds a number of spots that depends on n and the round
FrameDetectors ==
    {[NoDetector EXCEPT !.n = n, !.quiet = q] :
        n \in 0..MaxFrameSpots, q \in (-1)..(MaxCh - 1)} \cup
    {[NoDetector EXCEPT !.n = MaxFrameSpots, !.bad = b] : b \in 1..Len(Groups)}

DetectorCount(det, inds) ==
    IF inds.c = det.quiet THEN 0 ELSE (det.n + inds.r) % (MaxFrameSpots + 1)

\* the rows the detector reports on frame inds: `count` spots of radius 1 on
\* the first voxels of the frame, their intensity the pixel under them
FrameRows(inds, count) ==
    [j \in 1..count |->
        [center    |-> [a \in Axis |-> 2 * Voxel(j - 1)[a]],
         radius    |-> 2,
         intensity |-> PixelValue(inds.c, inds.r, Voxel(j - 1))]]

NoFindCalls == [reference |-> 0, on |-> "nothing", groups |-> <<>>]

\* the variables a run of one function does not use
IdleOrchestrator ==
    /\ reference = "none"
    /\ detector = NoDetector
    /\ results = <<>>
    /\ find_calls = NoFindCalls
    /\ transfer_calls = 0

IdleAssembler ==
    /\ frame_idx = 0
    /\ intensity_table = NoTable
    /\ writes = <<>>
    /\ get_slice_calls = 0
    /\ measure_calls = 0
    /\ measured = {}

(***************************************************************************)
(* SpecBox: one call of measure_spot_intensity on frame (0, 0)             *)
(***************************************************************************)
InitBox ==
    /\ pc = "box_start"
    /\ spot_attributes \in {<<row>> : row \in AnySpots}
    /\ radius_is_gyration \in BOOLEAN
    /\ measurement_function \in MeasurementFunctions
    /\ box = <<>>
    /\ blob_intensities = <<>>
    /\ spot_attributes_list = <<>>
    /\ IdleOrchestrator
    /\ IdleAssembler

MeasureSpotIntensity ==
    /\ pc = "box_start"
    /\ LET m == measure_spot_intensity(0, 0, spot_attributes,
                                       measurement_function, radius_is_gyration)
       IN  /\ box' = m.box
           /\ blob_intensities' = IF m.raised THEN <<>> ELSE m.series
           /\ pc' = IF m.raised THEN "box_raised" ELSE "box_done"
    /\ UNCHANGED <<reference, radius_is_gyration, measurement_function, detector,
                   spot_attributes, frame_idx, intensity_table, writes, results,
                   spot_attributes_list, find_calls, get_slice_calls,
                   measure_calls, transfer_calls,
                   measured>>

NextBox == MeasureSpotIntensity

SpecBox == InitBox /\ [][NextBox]_vars

BoxMeasured == pc \in {"box_done", "box_raised"}

(***************************************************************************)
(* Properties of measure_spot_intensity (SpecBox)                          *)
(***************************************************************************)
BoxInside(b) ==
    \A a \in Axis : /\ 0 <= b.lo[a] /\ b.lo[a] <= Shape[a]
                    /\ 0 <= b.hi[a] /\ b.hi[a] <= Shape[a]

\* C1: with radius_is_gyration=False, a spot whose radius truncates to 0 and
\* whose centre lies inside the image gets a box of size 1 on each axis, and
\* its measured intensity is the pixel of the frame at the spot's centre.
C1_ZeroRadiusSinglePixel ==
    (/\ BoxMeasured
     /\ ~radius_is_gyration
     /\ AsInt(spot_attributes[1].radius) = 0
     /\ InImage(spot_attributes[1]))
    => /\ \A a \in Axis : box[1].hi[a] - box[1].lo[a] = 1
       /\ pc = "box_done"
       /\ blob_intensities[1] =
              PixelValue(0, 0, [a \in Axis |-> AsInt(spot_attributes[1].center[a])])

\* C2: for every spot, whatever its centre, radius and radius policy, both
\* bounds of the box lie inside [0, axis_length] on every axis.
C2_BoxInsideImage ==
    BoxMeasured => BoxInside(box[1])

\* C7: for the same spot and image shape, the box of radius_is_gyration=True
\* is at least as large on every axis (box_max - box_min) as the box of
\* radius_is_gyration=False, and contains it.
C7_GyrationBoxContainsTruncationBox ==
    BoxMeasured =>
        LET g == IF radius_is_gyration THEN box[1]
                 ELSE BoxOf(spot_attributes[1], TRUE)
            t == IF radius_is_gyration THEN BoxOf(spot_attributes[1], FALSE)
                 ELSE box[1]
        IN  \A a \in Axis :
                /\ g.hi[a] - g.lo[a] >= t.hi[a] - t.lo[a]
                /\ g.lo[a] <= t.lo[a]
                /\ t.hi[a] <= g.hi[a]

\* C7 witness: a measured spot with a fractional radius whose gyration box is
\* strictly larger than its truncation box on every axis
C7_Witness ==
    /\ pc = "box_done"
    /\ radius_is_gyration
    /\ spot_attributes[1].radius = 1
    /\ InImage(spot_attributes[1])
    /\ \A a \in Axis :
           box[1].hi[a] - box[1].lo[a] >
               BoxOf(spot_attributes[1], FALSE).hi[a]
                   - BoxOf(spot_attributes[1], FALSE).lo[a]

(***************************************************************************)
(* detect_spots                                                            *)
(***************************************************************************)
Init ==
    /\ pc = "start"
    /\ reference \in {"none", "raw", "projected"}
    /\ IF reference = "none"
       THEN /\ detector \in FrameDetectors
            /\ radius_is_gyration = FALSE
            /\ measurement_function = "max"
       ELSE /\ detector \in ReferenceDetectors
            /\ radius_is_gyration \in BOOLEAN
            /\ measurement_function \in MeasurementFunctions
    /\ spot_attributes = <<>>
    /\ box = <<>>
    /\ blob_intensities = <<>>
    /\ results = <<>>
    /\ spot_attributes_list = <<>>
    /\ find_calls = [NoFindCalls EXCEPT !.groups = [k \in DOMAIN Groups |-> 0]]
    /\ transfer_calls = 0
    /\ IdleAssembler

FindOnReferenceCatching ==
    /\ pc = "start"
    /\ reference # "none"
    /\ find_calls' = [find_calls EXCEPT
                        !.reference = @ + 1,
                        !.on = IF reference = "projected"
                               THEN "reference.max_proj" ELSE "reference.xarray"]
    /\ pc' = "measure"
    /\ spot_attributes' = detector.table
    /\ UNCHANGED <<reference, radius_is_gyration, measurement_function, detector,
                   box, blob_intensities, frame_idx, intensity_table, writes,
                   results, spot_attributes_list, get_slice_calls,
                   measure_calls, transfer_calls,
                   measured>>

\* lines 223-229: the reference strategy runs spot_finding_method on the
\* reference image (max-projected first when the axes are given)
FindOnReference ==
    /\ pc = "start"
    /\ reference # "none"
    /\ find_calls' = [find_calls EXCEPT
                        !.reference = @ + 1,
                        !.on = IF reference = "projected"
                               THEN "reference.max_proj" ELSE "reference.xarray"]
    /\ IF detector.raises
       THEN /\ pc' = "raised"
            /\ UNCHANGED spot_attributes
       ELSE /\ pc' = "measure"
            /\ spot_attributes' = detector.table
    /\ UNCHANGED <<reference, radius_is_gyration, measurement_function, detector,
                   box, blob_intensities, frame_idx, intensity_table, writes,
                   results, spot_attributes_list, get_slice_calls,
                   measure_calls, transfer_calls,
                   measured>>

\* lines 96-109 of measure_spot_intensities: the empty table, and the return
\* when there is no spot
AllocateTable ==
    /\ pc = "measure"
    /\ LET table == Zeros(spot_attributes, round_labels, ch_labels)
       IN  /\ intensity_table' = table
           /\ writes' = NoWrites(table)
           /\ pc' = IF NoSpots(table) THEN "transfer" ELSE "fill"
    /\ frame_idx' = 1
    /\ UNCHANGED <<reference, radius_is_gyration, measurement_function, detector,
                   spot_attributes, box, blob_intensities, results,
                   spot_attributes_list, find_calls, get_slice_calls,
                   measure_calls, transfer_calls,
                   measured>>

\* lines 113-123: one iteration of the loop over product(ch_labels,
\* round_labels); after the last one the table is returned
FillFrame ==
    /\ pc = "fill"
    /\ LET c == Product(ch_labels, round_labels)[frame_idx][1]
           r == Product(ch_labels, round_labels)[frame_idx][2]
           image == FrameOf(c, r)
           m == measure_spot_intensity(image[1], image[2], spot_attributes,
                                       measurement_function, radius_is_gyration)
       IN  /\ get_slice_calls' = get_slice_calls + 1
           /\ measure_calls' = measure_calls + 1
           /\ measured' = measured \cup
                  {[stack |-> MeasuredStack, c |-> image[1], r |-> image[2],
                    spots |-> spot_attributes]}
           /\ box' = m.box
           /\ IF m.raised
              THEN /\ pc' = "raised"
                   /\ UNCHANGED <<blob_intensities, intensity_table, writes,
                                  frame_idx>>
              ELSE /\ blob_intensities' = m.series
                   /\ intensity_table' =
                          [intensity_table EXCEPT
                              !.cells = AssignColumn(@, c, r, m.series)]
                   /\ writes' = CountColumn(writes, c, r)
                   /\ frame_idx' = frame_idx + 1
                   /\ pc' = IF frame_idx = Len(Product(ch_labels, round_labels))
                            THEN "transfer" ELSE "fill"
    /\ UNCHANGED <<reference, radius_is_gyration, measurement_function, detector,
                   spot_attributes, results, spot_attributes_list, find_calls,
                   transfer_calls>>

\* lines 237-242: data_stack.transform starts one detection per (round,
\* channel) group
TransformStart ==
    /\ pc = "start"
    /\ reference = "none"
    /\ results' = [k \in DOMAIN Groups |-> [state |-> "pending", rows |-> <<>>]]
    /\ pc' = "transform"
    /\ UNCHANGED <<reference, radius_is_gyration, measurement_function, detector,
                   spot_attributes, box, blob_intensities, frame_idx,
                   intensity_table, writes, spot_attributes_list, find_calls,
                   get_slice_calls, measure_calls, transfer_calls,
                   measured>>

\* a worker of the pool runs spot_finding_method on one group, in any order,
\* and its outcome goes to the slot of that group
WorkerRun(k) ==
    /\ pc = "transform"
    /\ results[k].state = "pending"
    /\ find_calls' = [find_calls EXCEPT !.groups[k] = @ + 1, !.on = "data_stack"]
    /\ results' = [results EXCEPT ![k] =
                     IF detector.bad = k
                     THEN [state |-> "raised", rows |-> <<>>]
                     ELSE [state |-> "done",
                           rows  |-> FrameRows(GroupKey(k),
                                               DetectorCount(detector, GroupKey(k)))]]
    /\ UNCHANGED <<pc, reference, radius_is_gyration, measurement_function,
                   detector, spot_attributes, box, blob_intensities, frame_idx,
                   intensity_table, writes, spot_attributes_list,
                   get_slice_calls, measure_calls, transfer_calls,
                   measured>>

\* the exception of a worker leaves transform, and detect_spots with it
TransformRaise ==
    /\ pc = "transform"
    /\ \E k \in DOMAIN results : results[k].state = "raised"
    /\ pc' = "raised"
    /\ UNCHANGED <<reference, radius_is_gyration, measurement_function, detector,
                   spot_attributes, box, blob_intensities, frame_idx,
                   intensity_table, writes, results, spot_attributes_list,
                   find_calls, get_slice_calls, measure_calls, transfer_calls,
                   measured>>

\* the list transform returns: the slots, in the order of the groups
Collected(slots) == [k \in DOMAIN slots |-> <<slots[k].rows, GroupKey(k)>>]

\* line 238: spot_attributes_list = data_stack.transform(...)
TransformReturn ==
    /\ pc = "transform"
    /\ \A k \in DOMAIN results : results[k].state = "done"
    /\ spot_attributes_list' = Collected(results)
    /\ pc' = "merge"
    /\ UNCHANGED <<reference, radius_is_gyration, measurement_function, detector,
                   spot_attributes, box, blob_intensities, frame_idx,
                   intensity_table, writes, results, find_calls,
                   get_slice_calls, measure_calls, transfer_calls,
                   measured>>

\* line 243 (and all of concatenate_spot_attributes_to_intensities)
Merge ==
    /\ pc = "merge"
    /\ IF ConcatenateRaises(spot_attributes_list)
       THEN /\ pc' = "raised"
            /\ UNCHANGED intensity_table
       ELSE /\ pc' = "transfer"
            /\ intensity_table' =
                   concatenate_spot_attributes_to_intensities(spot_attributes_list)
    /\ UNCHANGED <<reference, radius_is_gyration, measurement_function, detector,
                   spot_attributes, box, blob_intensities, frame_idx, writes,
                   results, spot_attributes_list, find_calls, get_slice_calls,
                   measure_calls, transfer_calls,
                   measured>>

TransferUnlessEmpty ==
    /\ pc = "transfer"
    /\ transfer_calls' = IF Len(intensity_table.features) = 0
                         THEN transfer_calls ELSE transfer_calls + 1
    /\ pc' = "return"
    /\ UNCHANGED <<reference, radius_is_gyration, measurement_function, detector,
                   spot_attributes, box, blob_intensities, frame_idx,
                   intensity_table, writes, results, spot_attributes_list,
                   find_calls, get_slice_calls, measure_calls,
                   measured>>

\* lines 245-246: transfer_physical_coords_to_intensity_table
Transfer ==
    /\ pc = "transfer"
    /\ transfer_calls' = transfer_calls + 1
    /\ pc' = "return"
    /\ UNCHANGED <<reference, radius_is_gyration, measurement_function, detector,
                   spot_attributes, box, blob_intensities, frame_idx,
                   intensity_table, writes, results, spot_attributes_list,
                   find_calls, get_slice_calls, measure_calls,
                   measured>>

\* line 248: return intensity_table
Return ==
    /\ pc = "return"
    /\ pc' = "done"
    /\ UNCHANGED <<reference, radius_is_gyration, measurement_function, detector,
                   spot_attributes, box, blob_intensities, frame_idx,
                   intensity_table, writes, results, spot_attributes_list,
                   find_calls, get_slice_calls, measure_calls, transfer_calls,
                   measured>>

Next ==
    \/ FindOnReference
    \/ AllocateTable
    \/ FillFrame
    \/ TransformStart
    \/ \E k \in DOMAIN Groups : WorkerRun(k)
    \/ TransformRaise
    \/ TransformReturn
    \/ Merge
    \/ Transfer
    \/ Return

Spec == Init /\ [][Next]_vars

(***************************************************************************)
(* SpecMerge: one call of concatenate_spot_attributes_to_intensities       *)
(***************************************************************************)
FrameKeys == {[c |-> c, r |-> r] : c \in 0..(MaxCh - 1), r \in 0..(MaxRound - 1)}

FrameInputs ==
    {<<FrameRows(inds, count), inds>> : inds \in FrameKeys, count \in 0..MaxFrameSpots}

MergeInputs == UNION {[1..n -> FrameInputs] : n \in 0..MaxFrames}

InitMerge ==
    /\ pc = "merge"
    /\ spot_attributes_list \in MergeInputs
    /\ radius_is_gyration = FALSE
    /\ measurement_function = "max"
    /\ spot_attributes = <<>>
    /\ box = <<>>
    /\ blob_intensities = <<>>
    /\ IdleOrchestrator
    /\ IdleAssembler

NextMerge == Merge

SpecMerge == InitMerge /\ [][NextMerge]_vars

(***************************************************************************)
(* Properties of measure_spot_intensities (Spec, reference strategy)       *)
(***************************************************************************)
\* the table has been handed back to detect_spots
Produced == pc \in {"transfer", "return", "done"}

\* C3: with N >= 1 spots, every one of the N*C*R cells of the returned table
\* was written exactly once, and cell (n, c, r) is the measurement function
\* applied to the box of spot n in the frame (c, r) of the data stack.
C3_EveryCellWrittenOnceFromItsFrame ==
    (reference # "none" /\ Produced /\ Len(spot_attributes) >= 1) =>
        /\ DOMAIN intensity_table.cells =
               (0..(Len(spot_attributes) - 1)) \X Range(ch_labels) \X Range(round_labels)
        /\ \A k \in DOMAIN intensity_table.cells :
               /\ writes[k] = 1
               /\ intensity_table.cells[k] =
                      Measurement(measurement_function, k[2], k[3],
                          Region(BoxOf(spot_attributes[k[1] + 1], radius_is_gyration)))

\* C3 witness: a returned table of two spots whose cells differ between two
\* channels and between two rounds
C3_Witness ==
    /\ reference # "none"
    /\ pc = "done"
    /\ Len(spot_attributes) >= 2
    /\ intensity_table.cells[<<1, 0, 0>>] # intensity_table.cells[<<1, 1, 0>>]
    /\ intensity_table.cells[<<1, 0, 0>>] # intensity_table.cells[<<1, 0, 1>>]
    /\ intensity_table.cells[<<0, 0, 1>>] # intensity_table.cells[<<1, 0, 1>>]

\* C6: when the SpotAttributes table has zero rows, no frame is ever read
\* (get_slice is never called, the measurement function never applied) and
\* the returned table has zero features over the data stack's channel and
\* round labels.
C6_NoSpotsNoFrameRead ==
    (reference # "none" /\ ~detector.raises /\ detector.table = <<>>) =>
        /\ get_slice_calls = 0
        /\ measure_calls = 0
        /\ Produced =>
               /\ Len(intensity_table.features) = 0
               /\ DOMAIN intensity_table.cells = {}
               /\ intensity_table.ch = ch_labels
               /\ intensity_table.rounds = round_labels

\* C6 witness: the empty table was returned
C6_Witness ==
    /\ reference # "none"
    /\ pc = "done"
    /\ find_calls.reference = 1
    /\ spot_attributes = <<>>
    /\ intensity_table # NoTable

(***************************************************************************)
(* Properties of concatenate_spot_attributes_to_intensities (SpecMerge)    *)
(***************************************************************************)
RECURSIVE RowsBefore(_, _)
RowsBefore(list, f) ==
    IF f = 1 THEN 0 ELSE RowsBefore(list, f - 1) + Len(list[f - 1][1])

TotalRows(list) == RowsBefore(list, Len(list) + 1)

\* the table numbers the rows of the frames of `list` in concatenation order,
\* each with its intensity at its own (channel, round) and 0 elsewhere
MergedInOrder(table, list) ==
    /\ Len(table.features) = TotalRows(list)
    /\ \A k \in DOMAIN table.cells : k[1] \in 0..(TotalRows(list) - 1)
    /\ \A f \in DOMAIN list : \A j \in DOMAIN list[f][1] :
           LET i == RowsBefore(list, f) + j - 1
               row == list[f][1][j]
               inds == list[f][2]
           IN  /\ table.features[i + 1] =
                      [center |-> row.center, radius |-> row.radius]
               /\ \A c \in Range(table.ch), r \in Range(table.rounds) :
                      table.cells[<<i, c, r>>] =
                          IF c = inds.c /\ r = inds.r THEN row.intensity ELSE 0

\* C4: the merged table has as many features as the frames have spots, the
\* features are numbered in concatenation order of the frames without
\* deduplication, and each feature holds its spot's intensity at its own
\* (channel, round) and the zero fill value in every other cell.
C4_MergedInConcatenationOrder ==
    (pc = "transfer" /\ reference = "none") =>
        MergedInOrder(intensity_table, spot_attributes_list)

\* C4 witness: two frames with the same key and the same spots were merged
\* into distinct features
C4_Witness ==
    /\ pc = "transfer"
    /\ Len(spot_attributes_list) = 2
    /\ spot_attributes_list[1] = spot_attributes_list[2]
    /\ Len(spot_attributes_list[1][1]) = 2
    /\ Len(intensity_table.features) = 4

StrictlyAscending(s) == \A i, j \in DOMAIN s : i < j => s[i] < s[j]

\* C5: the channel axis and the round axis of the merged table are the
\* ascending, duplicate-free union of the channels and rounds of all input
\* frame keys, those of frames without spots included.
C5_AxesAreSortedUnionOfKeys ==
    (pc = "transfer" /\ reference = "none") =>
        /\ StrictlyAscending(intensity_table.ch)
        /\ StrictlyAscending(intensity_table.rounds)
        /\ Range(intensity_table.ch) =
               {spot_attributes_list[f][2].c : f \in DOMAIN spot_attributes_list}
        /\ Range(intensity_table.rounds) =
               {spot_attributes_list[f][2].r : f \in DOMAIN spot_attributes_list}

\* C5 witness: the keys came in descending order and the only frame of
\* channel 1 had no spot; channel 1 is on the axis, all zero
C5_Witness ==
    /\ pc = "transfer"
    /\ Len(spot_attributes_list) = 2
    /\ spot_attributes_list[1][2].c = 1
    /\ spot_attributes_list[1][1] = <<>>
    /\ spot_attributes_list[2][2].c = 0
    /\ Len(spot_attributes_list[2][1]) = 1
    /\ intensity_table.ch = <<0, 1>>
    /\ \A r \in Range(intensity_table.rounds) : intensity_table.cells[<<0, 1, r>>] = 0

(***************************************************************************)
(* Properties of detect_spots (Spec)                                       *)
(***************************************************************************)
\* what the deterministic detector reports on group k
Detected(k) == FrameRows(GroupKey(k), DetectorCount(detector, GroupKey(k)))

Canonical == [k \in DOMAIN Groups |-> <<Detected(k), GroupKey(k)>>]

\* C8: in the independent strategy the list handed to the merge is in the
\* enumeration order of the groups whatever order the workers completed in,
\* and the merged table (feature numbering and every cell) is the one of
\* that order.
C8_MergeInputInGroupOrder ==
    (reference = "none" /\ pc \in {"merge", "transfer", "return", "done"}) =>
        /\ spot_attributes_list = Canonical
        /\ Produced =>
               /\ MergedInOrder(intensity_table, Canonical)
               /\ intensity_table.ch = ch_labels
               /\ intensity_table.rounds = round_labels

\* C8 witness: a merged table whose groups contributed different numbers of
\* spots, the first group none
C8_Witness ==
    /\ reference = "none"
    /\ pc = "done"
    /\ Len(spot_attributes_list[1][1]) = 0
    /\ \E k \in DOMAIN spot_attributes_list : Len(spot_attributes_list[k][1]) = 1
    /\ \E k \in DOMAIN spot_attributes_list : Len(spot_attributes_list[k][1]) = 2

\* the table detect_spots is about to return is fully produced
TableComplete ==
    /\ intensity_table # NoTable
    /\ IF reference = "none"
       THEN Len(intensity_table.features) = TotalRows(spot_attributes_list)
       ELSE /\ Len(intensity_table.features) = Len(spot_attributes)
            /\ \A k \in DOMAIN intensity_table.cells : writes[k] = 1

\* C9: in both strategies, a returned table has had the coordinate transfer
\* invoked exactly once, after the table was fully produced and before the
\* return, the table of zero spots included.
C9_TransferOnceBeforeReturn ==
    /\ pc \in {"return", "done"} => transfer_calls = 1 /\ TableComplete
    /\ pc \notin {"return", "done"} => transfer_calls = 0
    /\ pc = "transfer" => TableComplete

\* C9 witness: a table of zero spots was returned
C9_Witness ==
    /\ pc = "done"
    /\ transfer_calls = 1
    /\ Len(intensity_table.features) = 0

\* spot_finding_method has raised
FinderRaised ==
    \/ reference # "none" /\ detector.raises /\ find_calls.reference > 0
    \/ \E k \in DOMAIN results : results[k].state = "raised"

\* C10: when spot_finding_method raises, in either strategy, it is not
\* invoked again for that input, the failure is what leaves detect_spots,
\* no table is produced or returned and the coordinate transfer is never
\* invoked.
C10_FinderFailurePropagates ==
    /\ find_calls.reference <= 1
    /\ \A k \in DOMAIN find_calls.groups : find_calls.groups[k] <= 1
    /\ FinderRaised =>
           /\ pc \in {"raised", "transform"}
           /\ pc = "transform" => ENABLED TransformRaise
           /\ intensity_table = NoTable
           /\ get_slice_calls = 0
           /\ transfer_calls = 0

\* C10 witness: the failure of the finder left detect_spots, in the
\* reference strategy
C10_Witness ==
    /\ pc = "raised"
    /\ reference # "none"
    /\ detector.raises
    /\ find_calls.reference = 1

\* the input the reference strategy hands to spot_finding_method
ReferenceInput ==
    IF reference = "projected" THEN "reference.max_proj" ELSE "reference.xarray"

\* C11: in the reference strategy spot_finding_method is invoked exactly
\* once, on the reference image (max-projected first when the axes are
\* given), and has returned before any frame is sliced or measured; every
\* measurement is taken from a frame of the data stack, never from the
\* reference image, with that one spot table for every (channel, round).
C11_ReferenceFoundOnceBeforeMeasuring ==
    reference # "none" =>
        /\ find_calls.reference <= 1
        /\ \A k \in DOMAIN find_calls.groups : find_calls.groups[k] = 0
        /\ pc = "start" =>
               find_calls.reference = 0 /\ get_slice_calls = 0 /\ measured = {}
        /\ pc # "start" =>
               find_calls.reference = 1 /\ find_calls.on = ReferenceInput
        /\ measured # {} =>
               /\ find_calls.reference = 1
               /\ ~detector.raises
               /\ spot_attributes = detector.table
        /\ get_slice_calls = Cardinality(measured)
        /\ measure_calls = Cardinality(measured)
        /\ \A m \in measured :
               /\ m.stack = "data_stack"
               /\ m.spots = detector.table
               /\ <<m.c, m.r>> \in Range(Product(ch_labels, round_labels))
        /\ (Produced /\ Len(spot_attributes) >= 1) =>
               {<<m.c, m.r>> : m \in measured} = Range(Product(ch_labels, round_labels))

\* C11 witness: a table measured on every frame of the data stack from the
\* spots found on the max-projected reference image
C11_Witness ==
    /\ reference = "projected"
    /\ pc = "done"
    /\ find_calls.on = "reference.max_proj"
    /\ Len(spot_attributes) >= 1
    /\ Cardinality(measured) = Len(Product(ch_labels, round_labels))

====
